---- MODULE Spec2Model ----
(***************************************************************************)
(* Colour predictor: the /api/chat session boundary (app/api/main.py), the *)
(* requirements graph (app/agents/requirements_graph.py) run under         *)
(* LangGraph with an in-memory checkpointer, and the local-model predictor *)
(* (app/agents/tools/colour_model.py).                                     *)
(*                                                                         *)
(* Numbers that are floats in the program are kept in tenths (70.0 is 700),*)
(* so that int() and float() are conversions that can change a value.      *)
(* Optional values (None or a value) are sequences of length 0 or 1.       *)
(***************************************************************************)
EXTENDS Integers, Sequences, FiniteSets, TLC

\* ---------------------------------------------------------------- bounds
\* Number of /api/chat calls accepted in one behaviour.
MaxCalls == 3
\* Number of request coroutines the server may have accepted at one time.
NReq == 2

\* Number of threads that may be inside the predictor at one time, and
\* number of direct predictor calls in one behaviour.
NCallers == 2
MaxPredCalls == 3

Reqs == 1..NReq
Callers == 1..NCallers

\* ------------------------------------------------------------ input sets
\* A request without session_id (None), and one with the empty string.
Absent == "absent"
EmptyId == ""
\* Identifiers a client makes up itself.
ClientIds == {"c1"}
\* str(uuid.uuid4()): the n-th identifier minted by the process.
Uuid(n) == "u" \o ToString(n)
ThreadIds == ClientIds \cup {Uuid(n) : n \in 1..MaxCalls}
\* message.message: the n-th call carries a text of its own, so that every
\* human message of a transcript tells which call brought it.
Text(n) == "t" \o ToString(n)
Texts == {Text(n) : n \in 1..MaxCalls}
\* missing_info.question as the LLM may return it; "" signals completeness.
\* A question asked during the n-th call has a text of its own.
Question(n) == "q" \o ToString(n)
Questions == {""} \cup {Question(n) : n \in 1..MaxCalls}

\* The twelve scalars of CompleteRequirements, in tenths, as the LLM may
\* return them: pydantic checks the types only, never the ranges.
ReqInRange ==
    [dye_red_owf |-> 42, dye_green_owf |-> 35, dye_blue_owf |-> 28,
     salt_gL |-> 600, sodaAsh_gL |-> 150, temp_C |-> 700, soap_temp_C |-> 850,
     time_min |-> 600, soap_time_min |-> 200, liquor_ratio |-> 155,
     pH |-> 105, water_hardness_ppm |-> 2000]
ReqOutOfRange ==
    [dye_red_owf |-> 25, dye_green_owf |-> 10, dye_blue_owf |-> 5,
     salt_gL |-> 100, sodaAsh_gL |-> 150, temp_C |-> 700, soap_temp_C |-> 800,
     time_min |-> 450, soap_time_min |-> 150, liquor_ratio |-> 100,
     pH |-> 105, water_hardness_ppm |-> 1500]
ReqSets == {ReqInRange, ReqOutOfRange}

\* model.predict(...)[0]: three continuous outputs, in tenths.
ModelOutputs == {<<-15, 2547, 3000>>}
\* More of them, for the calls made on the predictor directly.
PredOutputs == ModelOutputs \cup {<<0, 2550, 2559>>, <<1284, 9, 2546>>}

\* What the model artifact and the model can do in one prediction:
\* the .pkl is missing, joblib.load raises, predict raises, or predict returns.
Artifacts == {"missing", "corrupt", "ok"}
PredictRaises == <<>>

\* ---------------------------------------------------------------- helpers
None == <<>>
Some(v) == <<v>>
IsNone(o) == o = <<>>
IsPrefix(s, t) == Len(s) <= Len(t) /\ SubSeq(t, 1, Len(s)) = s
Last(s) == s[Len(s)]

HumanMessage(content) == [role |-> "human", content |-> content]
AIMessage(content) == [role |-> "ai", content |-> content]

\* ------------------------------------------------------------------ state
VARIABLES
    sessions,   \* main.py `sessions`: the identifiers marked as existing
    thr,        \* InMemorySaver: latest checkpoint of every thread_id
    loaded,     \* colour_model._loaded_model is not None
    loads,      \* number of joblib.load calls that returned a model
    minted,     \* number of uuid4 identifiers minted so far
    issued,     \* identifiers that a 200 response has carried to a client
    calls,      \* number of /api/chat calls accepted so far
    loop,       \* the request whose coroutine runs on the event loop, or 0
    req,        \* per request: position and locals of chat / process_graph_step
    pcall       \* direct callers of the predictor: position and locals

vars == <<sessions, thr, loaded, loads, minted, issued, calls, loop, req, pcall>>

\* RequirementsGraphState of a thread nobody wrote to yet, plus the node the
\* checkpoint would run next ("" when no checkpoint exists).
EmptyThread ==
    [messages |-> <<>>,
     requirements_complete |-> FALSE,
     interruption_message |-> "",
     requirements |-> None,
     prediction_result |-> None,
     next |-> ""]

IdleReq ==
    [pc |-> "idle", sid |-> "", text |-> "", branch |-> "",
     resume |-> None, result |-> None, resp |-> None,
     log |-> <<>>, startNext |-> "", startMsgs |-> <<>>, startQuestion |-> "",
     agentInput |-> None,
     agentOut |-> None, mintedId |-> FALSE]

\* A caller of colour_predictor.invoke or predict_from_requirements that
\* has not called yet.
IdleCaller ==
    [pc |-> "idle", kind |-> "", args |-> None, requirements |-> None,
     params |-> None, features |-> None, out |-> None, raised |-> "",
     result |-> None,
     log |-> <<>>]
IdlePred == [n |-> 0, c |-> [c \in Callers |-> IdleCaller]]

Init ==
    /\ sessions = {}
    /\ thr = [t \in ThreadIds |-> EmptyThread]
    /\ loaded = FALSE
    /\ loads = 0
    /\ minted = 0
    /\ issued = {}
    /\ calls = 0
    /\ loop = 0
    /\ req = [r \in Reqs |-> IdleReq]
    /\ pcall = IdlePred

\* ------------------------------------------------------------- predictor
\* int(x) on a float: truncation toward zero (tenths in, whole number out).
IntOf(x) == IF x >= 0 THEN x \div 10 ELSE -((-x) \div 10)
\* float(n) on an int: the same number (tenths in, tenths out).
FloatOf(x) == x
\* int(x) kept in tenths, for a value that is handed on as a parameter.
IntTenths(x) == 10 * IntOf(x)
\* float(v) and int(v) where v may be None: on None they raise TypeError,
\* see ShapingError; on a value they convert it.
FloatOfOpt(o) == Some(FloatOf(o[1]))
IntOfOpt(o) == Some(IntTenths(o[1]))

\* max(0, min(255, v))
Clamp(v) == IF v < 0 THEN 0 ELSE IF v > 255 THEN 255 ELSE v

HexDigitsUpper == <<"0", "1", "2", "3", "4", "5", "6", "7",
                    "8", "9", "A", "B", "C", "D", "E", "F">>
HexDigits == <<"0", "1", "2", "3", "4", "5", "6", "7",
               "8", "9", "a", "b", "c", "d", "e", "f">>
\* f"{v:02x}" for 0 <= v <= 255
HexByte(v) == <<HexDigits[(v \div 16) + 1], HexDigits[(v % 16) + 1]>>
\* f"#{r:02x}{g:02x}{b:02x}", one character per element
HexColor(r, g, b) == <<"#">> \o HexByte(r) \o HexByte(g) \o HexByte(b)

\* _load_model: "cached" when _loaded_model is set, else what the artifact
\* allows: FileNotFoundError, RuntimeError, or a fresh load.
LoadOutcome(isLoaded, artifact) ==
    IF isLoaded THEN "cached"
    ELSE IF artifact = "missing" THEN "FileNotFoundError"
    ELSE IF artifact = "corrupt" THEN "RuntimeError"
    ELSE "loaded"

PredictionFailureNoMessage(msg) ==
    [success |-> FALSE, predicted_rgb |-> None, hex_color |-> None,
     error |-> None, input_parameters |-> None]
PredictionFailure(msg) ==
    [success |-> FALSE, predicted_rgb |-> None, hex_color |-> None,
     error |-> Some(msg), input_parameters |-> None]

\* _prepare_model_input: the DataFrame row, keyed by the model's feature names.
PrepareModelInput(p) ==
    [dye_red_owf |-> p.red, dye_green_owf |-> p.green, dye_blue_owf |-> p.blue,
     salt_gL |-> p.salt, sodaAsh_gL |-> p.soda_ash,
     temp_C |-> p.dyeing_temperature, time_min |-> p.dyeing_time,
     pH |-> p.ph_level, liquor_ratio |-> p.liquor_ratio,
     water_hardness_ppm |-> p.water_hardness,
     soap_temp_C |-> p.soaping_temperature, soap_time_min |-> p.soaping_time]

\* _make_prediction: p the twelve keyword arguments, out the model's output
\* (PredictRaises when model.predict raises).
MakePrediction(p, isLoaded, artifact, out) ==
    LET how == LoadOutcome(isLoaded, artifact) IN
    IF how = "FileNotFoundError"
    THEN PredictionFailure("Model file not found")
    ELSE IF how = "RuntimeError"
    THEN PredictionFailure("Prediction failed: Failed to load model")
    ELSE IF out = PredictRaises
    THEN PredictionFailure("Prediction failed: predict raised")
    ELSE LET rgb_r == Clamp(IntOf(out[1]))
             rgb_g == Clamp(IntOf(out[2]))
             rgb_b == Clamp(IntOf(out[3]))
         IN [success |-> TRUE,
             predicted_rgb |-> Some([R |-> rgb_r, G |-> rgb_g, B |-> rgb_b]),
             hex_color |-> Some(HexColor(rgb_r, rgb_g, rgb_b)),
             error |-> None,
             input_parameters |-> Some(p)]

\* _loaded_model after a call of _load_model.
LoadedAfter(isLoaded, artifact) ==
    isLoaded \/ LoadOutcome(isLoaded, artifact) = "loaded"

\* predict_from_requirements: the keyword arguments taken from the dict.
\* Every scalar of the dict is None or a value: .get(key) gives None for a
\* key that is missing as for one that holds None, and a missing section is
\* {} and so gives None for each of its scalars.
RequirementsToParams(requirements) ==
    [red |-> requirements.rgb_details.dye_red_owf,
     green |-> requirements.rgb_details.dye_green_owf,
     blue |-> requirements.rgb_details.dye_blue_owf,
     salt |-> requirements.chemical_details.salt_gL,
     soda_ash |-> requirements.chemical_details.sodaAsh_gL,
     dyeing_temperature |-> FloatOfOpt(requirements.temperature_details.temp_C),
     soaping_temperature |-> FloatOfOpt(requirements.temperature_details.soap_temp_C),
     dyeing_time |-> requirements.time_details.time_min,
     soaping_time |-> requirements.time_details.soap_time_min,
     liquor_ratio |-> IntOfOpt(requirements.liquor_ratio.liquor_ratio),
     ph_level |-> requirements.pH.pH,
     water_hardness |-> requirements.water_hardness_ppm.water_hardness_ppm]

\* The exception that building the keyword arguments raises, "" when none:
\* float(None) and int(None) raise TypeError.
ShapingError(requirements) ==
    IF \/ IsNone(requirements.temperature_details.temp_C)
       \/ IsNone(requirements.temperature_details.soap_temp_C)
       \/ IsNone(requirements.liquor_ratio.liquor_ratio)
    THEN "TypeError" ELSE ""

PredictFromRequirements(requirements, isLoaded, artifact, out) ==
    IF ShapingError(requirements) # ""
    THEN PredictionFailure("Failed to extract requirements: "
                           \o ShapingError(requirements))
    ELSE MakePrediction(RequirementsToParams(requirements), isLoaded, artifact, out)

\* Whether predict_from_requirements gets as far as _load_model.
ReachesLoad(requirements) == ShapingError(requirements) = ""

\* The ranges the field descriptions give (in tenths), by keyword argument
\* of _make_prediction: lowest and highest value.
Ranges ==
    [red |-> <<0, 50>>, green |-> <<0, 50>>, blue |-> <<0, 50>>,
     salt |-> <<400, 800>>, soda_ash |-> <<100, 200>>,
     dyeing_temperature |-> <<600, 800>>, soaping_temperature |-> <<700, 950>>,
     dyeing_time |-> <<300, 900>>, soaping_time |-> <<100, 300>>,
     liquor_ratio |-> <<100, 200>>, ph_level |-> <<100, 115>>,
     water_hardness |-> <<500, 3000>>]
InRange(p) ==
    \A f \in DOMAIN Ranges :
        ~IsNone(p[f]) /\ p[f][1] >= Ranges[f][1] /\ p[f][1] <= Ranges[f][2]

\* ------------------------------------------- the colour_predictor tool
\* ColourChangeInput: the fields of the tool's args_schema, all required.
SchemaFields ==
    {"red", "green", "blue", "salt", "soda_ash", "dyeing_temperature",
     "soaping_temperature", "dyeing_time", "soaping_time", "liquor_ratio",
     "ph_level", "water_hardness"}
\* Those declared int: a float is taken only when it is whole.
SchemaIntFields == {"dyeing_time", "soaping_time", "liquor_ratio", "water_hardness"}

\* Dicts handed to colour_predictor.invoke: keyed by the schema's fields,
\* keyed by the model's feature names as in test_colour_model.py, and with
\* fields missing.
ArgsByField ==
    [red |-> 25, green |-> 10, blue |-> 5, salt |-> 500, soda_ash |-> 150,
     dyeing_temperature |-> 608, soaping_temperature |-> 800,
     dyeing_time |-> 450, soaping_time |-> 150, liquor_ratio |-> 100,
     ph_level |-> 105, water_hardness |-> 1500]
ArgsByFeature ==
    [dye_red_owf |-> 25, dye_green_owf |-> 10, dye_blue_owf |-> 5,
     salt_gL |-> 500, sodaAsh_gL |-> 150, temp_C |-> 608, time_min |-> 450,
     pH |-> 105, liquor_ratio |-> 100, water_hardness_ppm |-> 1500,
     soap_temp_C |-> 800, soap_time_min |-> 150]
ArgsOneKey == [dye_red_owf |-> 25]
Without(args, k) == [j \in (DOMAIN args) \ {k} |-> args[j]]
ToolInputs ==
    {ArgsByField, ArgsByFeature, ArgsOneKey,
     Without(ArgsByField, "red"), Without(ArgsByField, "water_hardness")}

\* args_schema validation of the tool input (extra keys are ignored).
ToolValidateLenient(args) == TRUE
ToolValidate(args) ==
    \A f \in SchemaFields :
        /\ f \in DOMAIN args
        /\ f \in SchemaIntFields => args[f] % 10 = 0
\* The keyword arguments colour_predictor is called with; a field the input
\* does not have is None here (reached only when validation lets it through).
ToolParams(args) ==
    [f \in SchemaFields |-> IF f \in DOMAIN args THEN Some(args[f]) ELSE None]

\* colour_predictor: the result of _make_prediction, handed back as it is.
ColourPredictor(p, isLoaded, artifact, out) ==
    MakePrediction(p, isLoaded, artifact, out)

\* ------------------------------------------------------- extraction step
\* CompleteRequirements as a dict (model_dump() of the structured response):
\* f gives each of the twelve scalars as None or a value.
CompleteRequirements(f, question, missing_fields) ==
    [rgb_details |-> [dye_red_owf |-> f.dye_red_owf,
                      dye_green_owf |-> f.dye_green_owf,
                      dye_blue_owf |-> f.dye_blue_owf],
     chemical_details |-> [salt_gL |-> f.salt_gL, sodaAsh_gL |-> f.sodaAsh_gL],
     temperature_details |-> [temp_C |-> f.temp_C, soap_temp_C |-> f.soap_temp_C],
     time_details |-> [time_min |-> f.time_min, soap_time_min |-> f.soap_time_min],
     liquor_ratio |-> [liquor_ratio |-> f.liquor_ratio],
     pH |-> [pH |-> f.pH],
     water_hardness_ppm |-> [water_hardness_ppm |-> f.water_hardness_ppm],
     user_confirmations |-> [accept_outbound_top_option |-> TRUE, notes |-> None],
     missing_info |-> [missing_fields |-> missing_fields, question |-> question]]

MissingFields(question) == IF question = "" THEN <<>> ELSE <<"salt_gL">>

\* What the LLM writes for the twelve scalars before pydantic sees it:
\* a value or null for each.
RawOf(f) == [k \in DOMAIN f |-> Some(f[k])]
RawWithNull(f, k) == [RawOf(f) EXCEPT ![k] = None]
RawOutputs ==
    {RawOf(f) : f \in ReqSets}
        \cup {RawWithNull(ReqInRange, "salt_gL"), RawWithNull(ReqOutOfRange, "temp_C")}

\* Fields declared int: pydantic takes a float only when it is whole.
IntFields == {"temp_C", "soap_temp_C", "time_min", "soap_time_min",
              "water_hardness_ppm"}
\* RequirementsResponseModel validation of the scalars: each is required
\* and typed float or int, so null is rejected.
ValidatesNullable(raw) ==
    \A k \in DOMAIN raw :
        IsNone(raw[k]) \/ (k \in IntFields => raw[k][1] % 10 = 0)
Validates(raw) ==
    \A k \in DOMAIN raw :
        /\ ~IsNone(raw[k])
        /\ k \in IntFields => raw[k][1] % 10 = 0

\* Every structured response the agent may hand back.
AgentResponses ==
    {CompleteRequirements(f, q, MissingFields(q)) :
        f \in {raw \in RawOutputs : Validates(raw)}, q \in Questions}

\* ------------------------------------------------------ graph (LangGraph)
\* A messages field without its reducer: an update overwrites the list.
AddMessagesOverwrite(messages, new) == new

\* add_messages reducer of MessagesState: a node's messages are appended.
AddMessages(messages, new) == messages \o new

\* The agent given the latest message alone.
AgentInputLatestOnly(state) == <<Last(state.messages)>>

\* requirements_agent.invoke({"messages": state["messages"]}): what the
\* agent is given.
AgentInput(state) == state.messages

\* requirements_agent_node storing the requirements whatever the question.
RequirementsAgentUpdateStoresPartial(state, response) ==
    [state EXCEPT
        !.messages = AddMessages(@,
            IF response.missing_info.question # ""
            THEN <<AIMessage(response.missing_info.question)>> ELSE <<>>),
        !.interruption_message = response.missing_info.question,
        !.requirements_complete = response.missing_info.question = "",
        !.requirements = Some(response),
        !.prediction_result = None]
\* The node without its test of the question: every response is stored as
\* complete requirements.
RequirementsAgentUpdateNoCheck(state, response) ==
    [state EXCEPT
        !.messages = AddMessages(@, <<>>),
        !.requirements_complete = TRUE,
        !.interruption_message = "",
        !.requirements = Some(response),
        !.prediction_result = None]

\* requirements_agent_node: the state after the node's update is applied,
\* response being structured_response.requirements.
RequirementsAgentUpdate(state, response) ==
    IF response.missing_info.question # ""
    THEN [state EXCEPT
             !.messages = AddMessages(@, <<AIMessage(response.missing_info.question)>>),
             !.interruption_message = response.missing_info.question,
             !.requirements_complete = FALSE,
             !.requirements = None,
             !.prediction_result = None]
    ELSE [state EXCEPT
             !.messages = AddMessages(@, <<>>),
             !.requirements_complete = TRUE,
             !.interruption_message = "",
             !.requirements = Some(response),
             !.prediction_result = None]

\* The router with its "not" left out.
ShouldAskUserForInfoInverted(state) == state.requirements_complete

\* should_ask_user_for_info
ShouldAskUserForInfo(state) == ~state.requirements_complete

\* add_conditional_edges("requirements_agent", should_ask_user_for_info, ...)
RouteAfterAgent(state) ==
    IF ShouldAskUserForInfo(state) THEN "ask_user_for_info" ELSE "make_prediction"

\* ask_user_for_info with its edge leading back to itself.
AskUserUpdateKeepsAsking(state, user_response) ==
    [state EXCEPT
        !.messages = AddMessages(@, <<HumanMessage(user_response)>>),
        !.interruption_message = "",
        !.requirements_complete = FALSE,
        !.requirements = None,
        !.prediction_result = None,
        !.next = "ask_user_for_info"]
\* ask_user_for_info after interrupt() returned user_response.
AskUserUpdate(state, user_response) ==
    [state EXCEPT
        !.messages = AddMessages(@, <<HumanMessage(user_response)>>),
        !.interruption_message = "",
        !.requirements_complete = FALSE,
        !.requirements = None,
        !.prediction_result = None,
        !.next = "requirements_agent"]

\* An interrupt that carries a fixed prompt instead of the stored question.
InterruptPayloadDefault(state) == "Please provide more information."

\* The payload of the interrupt raised by ask_user_for_info.
InterruptPayload(state) == state.interruption_message

\* make_prediction_node: the prediction_result it stores.
MakePredictionResult(state, isLoaded, artifact, out) ==
    IF IsNone(state.requirements)
    THEN [success |-> FALSE, predicted_rgb |-> None, hex_color |-> None,
          error |-> Some("No requirements available for prediction."),
          input_parameters |-> None]
    ELSE PredictFromRequirements(state.requirements[1], isLoaded, artifact, out)

\* make_prediction_node's update of the state: it returns prediction_result
\* only, so every other key keeps its value.
MakePredictionUpdateDiscards(state, result) ==
    [state EXCEPT !.prediction_result = Some(result), !.requirements = None]
MakePredictionUpdate(state, result) ==
    [state EXCEPT !.prediction_result = Some(result)]

\* requirements_graph.invoke(initial_state, config): the input is applied to
\* whatever checkpoint the thread has (messages are appended by the reducer,
\* unfinished tasks of the checkpoint are discarded) and the graph runs from
\* START, whose edge leads to requirements_agent.
GraphInput(state, user_message) ==
    [state EXCEPT
        !.messages = AddMessages(@, <<HumanMessage(user_message)>>),
        !.next = "requirements_agent"]

\* What invoke returns: the state's values and, when the run stopped at an
\* interrupt, "__interrupt__" with its payload.
InvokeResult(state, interrupt) ==
    [interrupt |-> interrupt,
     requirements |-> state.requirements,
     prediction_result |-> state.prediction_result]

\* -------------------------------------------------------- session boundary
\* chat: session_id = message.session_id or str(uuid.uuid4())
ResolveSessionId(sidIn, fresh) ==
    IF sidIn = Absent \/ sidIn = EmptyId THEN fresh ELSE sidIn

\* process_graph_step: session_exists = session_id in sessions
SessionExists(session_id) == session_id \in sessions

\* chat run in a thread pool (a plain def): calls overlap.
LoopShared == TRUE

\* chat is a coroutine without an await: a call runs from its first line to
\* its return before the event loop starts another one.
LoopFree == loop = 0

\* The response text without the branch for a failed prediction.
ResponseTextNoFailureLine(result) ==
    IF ~IsNone(result.prediction_result) /\ result.prediction_result[1].success
    THEN LET pred == result.prediction_result[1]
             rgb == pred.predicted_rgb[1]
         IN <<"Prediction complete! RGB: R=", ToString(rgb.R),
              ", G=", ToString(rgb.G), ", B=", ToString(rgb.B),
              " | Hex: ">> \o pred.hex_color[1]
    ELSE IF ~IsNone(result.requirements)
    THEN <<"Requirements gathered successfully. Processing prediction...">>
    ELSE <<"Processing complete.">>

\* process_graph_step, from "Graph completed": the text of the response.
ResponseText(result) ==
    IF ~IsNone(result.prediction_result)
    THEN LET pred == result.prediction_result[1] IN
         IF pred.success
         THEN LET rgb == pred.predicted_rgb[1] IN
              <<"Prediction complete! RGB: R=", ToString(rgb.R),
                ", G=", ToString(rgb.G), ", B=", ToString(rgb.B),
                " | Hex: ">> \o pred.hex_color[1]
         ELSE <<"Prediction failed: ",
                IF IsNone(pred.error) THEN "Unknown error" ELSE pred.error[1]>>
    ELSE IF ~IsNone(result.requirements)
    THEN <<"Requirements gathered successfully. Processing prediction...">>
    ELSE <<"Processing complete.">>

\* process_graph_step without its test for "__interrupt__".
ChatResponseIgnoresInterrupt(session_id, result) ==
    [status |-> 200, session_id |-> session_id,
     requires_input |-> FALSE,
     response |-> ResponseText(result),
     prediction_result |-> result.prediction_result,
     requirements |-> result.requirements]

\* process_graph_step, after invoke: the dict it returns, as chat wraps it
\* into ChatResponse.
ChatResponse(session_id, result) ==
    IF ~IsNone(result.interrupt)
    THEN [status |-> 200, session_id |-> session_id,
          requires_input |-> TRUE,
          response |-> <<result.interrupt[1]>>,
          prediction_result |-> None,
          requirements |-> result.requirements]
    ELSE [status |-> 200, session_id |-> session_id,
          requires_input |-> FALSE,
          response |-> ResponseText(result),
          prediction_result |-> result.prediction_result,
          requirements |-> result.requirements]

\* chat's except branch, were it to answer 200 with the exception's text.
ErrorResponseSwallowed ==
    [status |-> 200, session_id |-> "", requires_input |-> FALSE,
     response |-> <<"Error: ">>, prediction_result |-> None,
     requirements |-> None]
\* chat's except branch: HTTPException(status_code=500).
ErrorResponse ==
    [status |-> 500, session_id |-> "", requires_input |-> FALSE,
     response |-> <<"Error: ">>, prediction_result |-> None,
     requirements |-> None]

\* ---------------------------------------------------------------- actions
\* config = {"configurable": {"thread_id": session_id}}, were it to name one
\* thread for every session.
ThreadIdShared(session_id) == "c1"
\* config = {"configurable": {"thread_id": session_id}}
ThreadId(session_id) == session_id
Thread(r) == thr[ThreadId(req[r].sid)]
InGraph(r) == req[r].pc = "graph"

\* chat up to the graph's first step: the identifier is taken or minted, and
\* process_graph_step starts the graph (unknown identifier) or resumes it
\* (known identifier).
ChatBegin(r, sidIn, user_message) ==
    /\ req[r].pc = "idle"
    /\ \A q \in Reqs : q < r => req[q].pc # "idle"
    /\ user_message = Text(calls + 1)
    /\ LoopFree
    /\ calls < MaxCalls
    /\ LET mints == sidIn = Absent \/ sidIn = EmptyId
           session_id == ResolveSessionId(sidIn, Uuid(minted + 1))
           session_exists == SessionExists(session_id)
           base == [IdleReq EXCEPT
                       !.pc = "graph", !.sid = session_id, !.mintedId = mints,
                       !.text = user_message,
                       !.startNext = thr[ThreadId(session_id)].next,
                       !.startMsgs = thr[ThreadId(session_id)].messages,
                       !.startQuestion = thr[ThreadId(session_id)].interruption_message]
       IN /\ minted' = IF mints THEN minted + 1 ELSE minted
          /\ IF ~session_exists
             THEN /\ thr' = [thr EXCEPT
                                ![ThreadId(session_id)] = GraphInput(@, user_message)]
                  /\ req' = [req EXCEPT ![r] = [base EXCEPT !.branch = "new"]]
             ELSE /\ thr' = thr
                  /\ req' = [req EXCEPT
                                ![r] = [base EXCEPT !.branch = "resume",
                                                    !.resume = Some(user_message)]]
    /\ calls' = calls + 1
    /\ loop' = r
    /\ UNCHANGED <<sessions, loaded, loads, issued, pcall>>

\* requirements_agent_node returns. The agent may have called the
\* colour_predictor tool on its way (tool = "notool" when it did not), which
\* loads the model on first use.
RequirementsAgentNode(r, response, tool) ==
    /\ InGraph(r)
    /\ Thread(r).next = "requirements_agent"
    /\ response.missing_info.question \in {"", Question(calls)}
    /\ LET state == Thread(r)
           after == RequirementsAgentUpdate(state, response)
       IN /\ thr' = [thr EXCEPT
                        ![ThreadId(req[r].sid)] = [after EXCEPT !.next = RouteAfterAgent(after)]]
          /\ req' = [req EXCEPT
                        ![r].agentInput = Some(AgentInput(state)),
                        ![r].agentOut = Some(response),
                        ![r].resume = None,
                        ![r].log = Append(@,
                            IF response.missing_info.question # ""
                            THEN "extract_question" ELSE "extract_complete")]
    /\ loaded' = IF tool = "notool" THEN loaded ELSE LoadedAfter(loaded, tool)
    /\ loads' = IF tool # "notool" /\ LoadOutcome(loaded, tool) = "loaded"
                THEN loads + 1 ELSE loads
    /\ UNCHANGED <<sessions, minted, issued, calls, loop, pcall>>

\* requirements_agent.invoke raises (LLM unreachable, output not conformant):
\* the exception leaves the graph and process_graph_step, and chat answers
\* 500. The checkpoint keeps requirements_agent as the node to run.
RequirementsAgentRaises(r) ==
    /\ InGraph(r)
    /\ Thread(r).next = "requirements_agent"
    /\ req' = [req EXCEPT
                  ![r].pc = "returned",
                  ![r].agentInput = Some(AgentInput(Thread(r))),
                  ![r].resume = None,
                  ![r].resp = Some(ErrorResponse),
                  ![r].log = Append(@, "extract_raises")]
    /\ UNCHANGED <<sessions, thr, loaded, loads, minted, issued, calls, loop, pcall>>

\* ask_user_for_info with a resume value at hand: interrupt() returns it.
AskUserResumes(r) ==
    /\ InGraph(r)
    /\ Thread(r).next = "ask_user_for_info"
    /\ ~IsNone(req[r].resume)
    /\ thr' = [thr EXCEPT ![ThreadId(req[r].sid)] = AskUserUpdate(@, req[r].resume[1])]
    /\ req' = [req EXCEPT ![r].resume = None,
                          ![r].log = Append(@, "resume")]
    /\ UNCHANGED <<sessions, loaded, loads, minted, issued, calls, loop, pcall>>

\* ask_user_for_info without one: interrupt() suspends the graph, and invoke
\* returns the state with "__interrupt__".
AskUserInterrupts(r) ==
    /\ InGraph(r)
    /\ Thread(r).next = "ask_user_for_info"
    /\ IsNone(req[r].resume)
    /\ req' = [req EXCEPT
                  ![r].pc = "invoked",
                  ![r].result = Some(InvokeResult(Thread(r),
                                     Some(InterruptPayload(Thread(r))))),
                  ![r].log = Append(@, "interrupt")]
    /\ UNCHANGED <<sessions, thr, loaded, loads, minted, issued, calls, loop, pcall>>

\* make_prediction_node, then END.
MakePredictionNode(r, artifact, out) ==
    /\ InGraph(r)
    /\ Thread(r).next = "make_prediction"
    /\ LET state == Thread(r)
           calls_predictor == ~IsNone(state.requirements)
       IN /\ thr' = [thr EXCEPT
                        ![ThreadId(req[r].sid)] =
                            [MakePredictionUpdate(state,
                                MakePredictionResult(state, loaded, artifact, out))
                             EXCEPT !.next = "END"]]
          /\ loaded' = IF calls_predictor /\ ReachesLoad(state.requirements[1])
                       THEN LoadedAfter(loaded, artifact) ELSE loaded
          /\ loads' = IF /\ calls_predictor
                         /\ ReachesLoad(state.requirements[1])
                         /\ LoadOutcome(loaded, artifact) = "loaded"
                      THEN loads + 1 ELSE loads
          /\ req' = [req EXCEPT
                        ![r].resume = None,
                        ![r].log = Append(@, IF calls_predictor THEN "predict"
                                             ELSE "no_requirements")]
    /\ UNCHANGED <<sessions, minted, issued, calls, loop, pcall>>

\* The graph has nothing (more) to run: invoke returns the state's values.
GraphEnds(r) ==
    /\ InGraph(r)
    /\ Thread(r).next = "END"
    /\ req' = [req EXCEPT
                  ![r].pc = "invoked",
                  ![r].resume = None,
                  ![r].result = Some(InvokeResult(Thread(r), None))]
    /\ UNCHANGED <<sessions, thr, loaded, loads, minted, issued, calls, loop, pcall>>

\* process_graph_step after invoke returned: a new session is marked as
\* existing, and the response is built.
BuildResponse(r) ==
    /\ req[r].pc = "invoked"
    /\ sessions' = IF req[r].branch = "new" THEN sessions \cup {req[r].sid}
                   ELSE sessions
    /\ req' = [req EXCEPT
                  ![r].pc = "returned",
                  ![r].resp = Some(ChatResponse(req[r].sid, req[r].result[1]))]
    /\ UNCHANGED <<thr, loaded, loads, minted, issued, calls, loop, pcall>>

\* chat returns (or raises the HTTPException): the client has the response,
\* the coroutine is over.
ChatReturn(r) ==
    /\ req[r].pc = "returned"
    /\ issued' = IF req[r].resp[1].status = 200
                 THEN issued \cup {req[r].resp[1].session_id} ELSE issued
    /\ req' = [req EXCEPT ![r] = IdleReq]
    /\ loop' = IF loop = r THEN 0 ELSE loop
    /\ UNCHANGED <<sessions, thr, loaded, loads, minted, calls, pcall>>

Next ==
    \/ \E r \in Reqs, sidIn \in {Absent, EmptyId} \cup ClientIds \cup issued,
          user_message \in Texts : ChatBegin(r, sidIn, user_message)
    \/ \E r \in Reqs, response \in AgentResponses,
          tool \in {"notool"} \cup Artifacts :
            RequirementsAgentNode(r, response, tool)
    \/ \E r \in Reqs : RequirementsAgentRaises(r)
    \/ \E r \in Reqs : AskUserResumes(r)
    \/ \E r \in Reqs : AskUserInterrupts(r)
    \/ \E r \in Reqs, artifact \in Artifacts,
          out \in ModelOutputs \cup {PredictRaises} :
            MakePredictionNode(r, artifact, out)
    \/ \E r \in Reqs : GraphEnds(r)
    \/ \E r \in Reqs : BuildResponse(r)
    \/ \E r \in Reqs : ChatReturn(r)

Spec == Init /\ [][Next]_vars

\* ------------------------------------------------ one session, to its end
\* One user and one session, under the assumptions that the user replies to
\* every question, that no extraction fails, and that the extraction
\* returns an empty question at the latest in the MaxCalls-th call. Every
\* step of the server is sequential code that runs to its end, so each is
\* taken once it is enabled.
LiveChatBegin(r, sidIn, user_message) ==
    /\ \/ sidIn = Absent /\ minted = 0
       \/ sidIn \in issued /\ thr[ThreadId(sidIn)].next = "ask_user_for_info"
    /\ ChatBegin(r, sidIn, user_message)

LiveRequirementsAgentNode(r, response, tool) ==
    /\ calls = MaxCalls => response.missing_info.question = ""
    /\ RequirementsAgentNode(r, response, tool)

LiveNext ==
    \/ \E r \in Reqs, sidIn \in {Absent} \cup issued, user_message \in Texts :
          LiveChatBegin(r, sidIn, user_message)
    \/ \E r \in Reqs, response \in AgentResponses,
          tool \in {"notool"} \cup Artifacts :
            LiveRequirementsAgentNode(r, response, tool)
    \/ \E r \in Reqs : AskUserResumes(r)
    \/ \E r \in Reqs : AskUserInterrupts(r)
    \/ \E r \in Reqs, artifact \in Artifacts,
          out \in ModelOutputs \cup {PredictRaises} :
            MakePredictionNode(r, artifact, out)
    \/ \E r \in Reqs : GraphEnds(r)
    \/ \E r \in Reqs : BuildResponse(r)
    \/ \E r \in Reqs : ChatReturn(r)

LiveSpec == Init /\ [][LiveNext]_vars /\ WF_vars(LiveNext)

\* ------------------------------------------- direct calls of the predictor
\* Threads that call colour_predictor.invoke or predict_from_requirements
\* themselves, _load_model taken in its two steps: the test of
\* _loaded_model, and joblib.load with the assignment.
Caller(c) == pcall.c[c]
SetCaller(c, rec) == [pcall EXCEPT !.c[c] = rec]
LeastIdle(c) ==
    /\ Caller(c).pc = "idle"
    /\ \A d \in Callers : d < c => Caller(d).pc # "idle"

\* Dicts handed to predict_from_requirements.
PredRequirements ==
    {CompleteRequirements(raw, "", <<>>) :
        raw \in {RawOf(ReqInRange), RawWithNull(ReqInRange, "salt_gL"),
                 RawWithNull(ReqOutOfRange, "temp_C"),
                 RawWithNull(ReqInRange, "liquor_ratio")}}

\* What the call hands back once loading and inference went as given.
CallResult(cr, isLoaded, artifact, out) ==
    IF cr.kind = "requirements"
    THEN PredictFromRequirements(cr.requirements[1], isLoaded, artifact, out)
    ELSE ColourPredictor(cr.params[1], isLoaded, artifact, out)

\* colour_predictor.invoke(args): the input is validated against the schema
\* first; a ValidationError leaves invoke before the function is called.
PCallTool(c, args) ==
    /\ LeastIdle(c)
    /\ pcall.n < MaxPredCalls
    /\ LET base == [IdleCaller EXCEPT !.kind = "tool", !.args = Some(args)]
           rec == IF ToolValidate(args)
                  THEN [base EXCEPT !.pc = "load",
                                    !.params = Some(ToolParams(args))]
                  ELSE [base EXCEPT !.pc = "done",
                                    !.raised = "ValidationError"]
       IN pcall' = [SetCaller(c, rec) EXCEPT !.n = @ + 1]
    /\ UNCHANGED <<sessions, thr, loaded, loads, minted, issued, calls, loop, req>>

\* predict_from_requirements(requirements) up to the call of _load_model.
PCallRequirements(c, requirements) ==
    /\ LeastIdle(c)
    /\ pcall.n < MaxPredCalls
    /\ LET base == [IdleCaller EXCEPT !.kind = "requirements",
                                      !.requirements = Some(requirements)]
           rec == IF ReachesLoad(requirements)
                  THEN [base EXCEPT !.pc = "load",
                                    !.params = Some(RequirementsToParams(requirements))]
                  ELSE [base EXCEPT
                           !.pc = "done",
                           !.result = Some(CallResult(base, loaded, "ok",
                                                      PredictRaises))]
       IN pcall' = [SetCaller(c, rec) EXCEPT !.n = @ + 1]
    /\ UNCHANGED <<sessions, thr, loaded, loads, minted, issued, calls, loop, req>>

\* _load_model up to joblib.load: the cached model, or the artifact is
\* missing, or joblib.load raises, or it is about to return a model.
PLoadCheck(c, artifact) ==
    /\ Caller(c).pc = "load"
    /\ LET cr == Caller(c)
           how == LoadOutcome(loaded, artifact)
           seen == [cr EXCEPT !.log = Append(@, how)]
       IN pcall' = SetCaller(c,
                    IF how = "cached" THEN [seen EXCEPT !.pc = "predict"]
                    ELSE IF how = "loaded" THEN [seen EXCEPT !.pc = "loading"]
                    ELSE [seen EXCEPT
                             !.pc = "done",
                             !.result = Some(CallResult(cr, loaded, artifact,
                                                        PredictRaises))])
    /\ UNCHANGED <<sessions, thr, loaded, loads, minted, issued, calls, loop, req>>

\* joblib.load returns and _loaded_model is assigned.
PLoadFinish(c) ==
    /\ Caller(c).pc = "loading"
    /\ loaded' = LoadedAfter(FALSE, "ok")
    /\ loads' = loads + 1
    /\ pcall' = SetCaller(c, [Caller(c) EXCEPT !.pc = "predict"])
    /\ UNCHANGED <<sessions, thr, minted, issued, calls, loop, req>>

\* model.predict and the rest of _make_prediction.
PPredict(c, out) ==
    /\ Caller(c).pc = "predict"
    /\ pcall' = SetCaller(c,
                 [Caller(c) EXCEPT
                     !.pc = "done",
                     !.features = Some(PrepareModelInput(Caller(c).params[1])),
                     !.out = Some(out),
                     !.log = Append(@, "predict"),
                     !.result = Some(CallResult(Caller(c), TRUE, "ok", out))])
    /\ UNCHANGED <<sessions, thr, loaded, loads, minted, issued, calls, loop, req>>

\* The caller has its result (or the exception) and goes on.
PReturn(c) ==
    /\ Caller(c).pc = "done"
    /\ pcall' = SetCaller(c, IdleCaller)
    /\ UNCHANGED <<sessions, thr, loaded, loads, minted, issued, calls, loop, req>>

PredNext ==
    \/ \E c \in Callers, args \in ToolInputs : PCallTool(c, args)
    \/ \E c \in Callers, requirements \in PredRequirements :
          PCallRequirements(c, requirements)
    \/ \E c \in Callers, artifact \in Artifacts : PLoadCheck(c, artifact)
    \/ \E c \in Callers : PLoadFinish(c)
    \/ \E c \in Callers, out \in PredOutputs \cup {PredictRaises} : PPredict(c, out)
    \/ \E c \in Callers : PReturn(c)

PredSpec == Init /\ [][PredNext]_vars

\* ----------------------------------------------------------------- claims
IsHuman(m) == m.role = "human"
Events(r) == req[r].log
Has(r, e) == \E i \in DOMAIN Events(r) : Events(r)[i] = e
Ended(r) == req[r].pc \in {"invoked", "returned"}
Answered(r) == req[r].pc = "returned" /\ req[r].resp[1].status = 200
AskedQuestion(r) == req[r].agentOut[1].missing_info.question

\* C1: the Predictor is invoked only right after an extraction of the same
\* turn that returned an empty question: never after one that returned a
\* question, never as the first thing a turn does (the session was suspended
\* or finished when the turn began).
C1_PredictorOnlyAfterCompleteExtraction ==
    \A r \in Reqs : \A i \in DOMAIN Events(r) :
        Events(r)[i] = "predict" =>
            /\ i > 1
            /\ Events(r)[i - 1] = "extract_complete"
            /\ AskedQuestion(r) = ""

C1_Witness ==
    \E r \in Reqs : Events(r) # <<>> /\ Last(Events(r)) = "predict"

\* C2: after an extraction that returned a question q, the transcript is the
\* one the agent was given plus q as an assistant message, q is the pending
\* interruption, requirements_complete is false, no resume value is left
\* that could answer it, and the turn can only end suspended with q as the
\* payload of the interrupt.
C2_QuestionSuspendsWithPayload ==
    \A r \in Reqs :
        Has(r, "extract_question") =>
            LET q == AskedQuestion(r)
                st == Thread(r)
            IN /\ q # ""
               /\ st.messages = req[r].agentInput[1] \o <<AIMessage(q)>>
               /\ st.interruption_message = q
               /\ st.requirements_complete = FALSE
               /\ st.next = "ask_user_for_info"
               /\ IsNone(req[r].resume)
               /\ ~Has(r, "predict")
               /\ Ended(r) =>
                    /\ Last(Events(r)) = "interrupt"
                    /\ req[r].result[1].interrupt = Some(q)

C2_Witness ==
    \E r \in Reqs :
        /\ Answered(r)
        /\ Has(r, "extract_question")
        /\ Last(Events(r)) = "interrupt"
        /\ req[r].resp[1].requires_input

\* C3: after an extraction that returned an empty question, the returned
\* RequirementSet is stored, the next node is make_prediction, and the turn
\* neither suspends nor takes a user reply before the Predictor ran: it can
\* only end with the Predictor's call as its last event.
C3_CompleteGoesToPredictor ==
    \A r \in Reqs :
        Has(r, "extract_complete") =>
            /\ Thread(r).requirements = req[r].agentOut
            /\ Thread(r).requirements_complete
            /\ ~Has(r, "interrupt")
            /\ Last(Events(r)) \in {"extract_complete", "predict"}
            /\ Last(Events(r)) = "extract_complete" =>
                    req[r].pc = "graph" /\ Thread(r).next = "make_prediction"
            /\ Ended(r) => Last(Events(r)) = "predict"

C3_Witness ==
    \E r \in Reqs :
        /\ Answered(r)
        /\ Len(Events(r)) >= 2
        /\ Events(r)[Len(Events(r)) - 1] = "extract_complete"
        /\ Last(Events(r)) = "predict"

\* C4: a turn that resumes a suspended session first appends the reply to
\* the transcript as a human message and clears the pending interruption,
\* and then gives the agent the whole transcript: everything the thread had
\* before the turn, followed by the reply.
C4_ResumeAppendsReplyAndReextracts ==
    \A r \in Reqs :
        (req[r].branch = "resume" /\ req[r].startNext = "ask_user_for_info") =>
            LET augmented == req[r].startMsgs \o <<HumanMessage(req[r].text)>> IN
            /\ Events(r) # <<>> => Events(r)[1] = "resume"
            /\ Events(r) = <<"resume">> =>
                    /\ Thread(r).messages = augmented
                    /\ Thread(r).interruption_message = ""
                    /\ Thread(r).next = "requirements_agent"
            /\ Len(Events(r)) >= 2 =>
                    /\ Events(r)[2] \in {"extract_question", "extract_complete",
                                         "extract_raises"}
                    /\ req[r].agentInput = Some(augmented)
            /\ req[r].pc # "graph" => Len(Events(r)) >= 2

C4_Witness ==
    \E r \in Reqs :
        /\ req[r].branch = "resume"
        /\ req[r].startNext = "ask_user_for_info"
        /\ Len(req[r].startMsgs) >= 4
        /\ Answered(r)
        /\ Len(req[r].agentInput[1]) = Len(req[r].startMsgs) + 1

\* C5: during a turn the thread's transcript always has the transcript of
\* the turn's beginning as a prefix, and a reply to a question has made it
\* longer by the time the call is answered.
C5_TranscriptAppendOnly ==
    \A r \in Reqs :
        req[r].pc # "idle" =>
            /\ IsPrefix(req[r].startMsgs, Thread(r).messages)
            /\ (Answered(r) /\ req[r].startNext = "ask_user_for_info") =>
                    /\ Len(Thread(r).messages) > Len(req[r].startMsgs)
                    /\ Thread(r).messages[Len(req[r].startMsgs) + 1]
                            = HumanMessage(req[r].text)

C5_Witness ==
    \E r \in Reqs :
        /\ Answered(r)
        /\ req[r].startNext = "ask_user_for_info"
        /\ Len(req[r].startMsgs) >= 2
        /\ Len(Thread(r).messages) >= Len(req[r].startMsgs) + 2

\* C6: once the Predictor ran, it is the turn's last event and its only
\* call, its result is stored and the graph is at END; the call is answered
\* with requires_input false and the stored result, and a failed prediction
\* is answered with success false and the failure line carrying the error.
C6_PredictorResultEndsTurn ==
    \A r \in Reqs :
        Has(r, "predict") =>
            /\ Last(Events(r)) = "predict"
            /\ Cardinality({i \in DOMAIN Events(r) : Events(r)[i] = "predict"}) = 1
            /\ Thread(r).next = "END"
            /\ ~IsNone(Thread(r).prediction_result)
            /\ req[r].pc = "returned" =>
                LET resp == req[r].resp[1]
                    pred == Thread(r).prediction_result[1]
                IN /\ resp.status = 200
                   /\ resp.requires_input = FALSE
                   /\ resp.prediction_result = Some(pred)
                   /\ ~pred.success =>
                        /\ ~IsNone(pred.error)
                        /\ pred.error[1] # ""
                        /\ resp.response = <<"Prediction failed: ", pred.error[1]>>

C6_Witness ==
    \E r \in Reqs :
        /\ Answered(r)
        /\ Has(r, "predict")
        /\ ~req[r].resp[1].prediction_result[1].success

\* C7: a call whose session_id is absent or not in the session map runs
\* under a newly minted identifier, which the response returns, and the
\* thread's transcript starts with the call's text as its first and only
\* human message.
C7_UnknownSessionMintsAndStartsFresh ==
    \A r \in Reqs :
        req[r].branch = "new" =>
            /\ req[r].mintedId
            /\ req[r].sid = Uuid(minted)
            /\ SelectSeq(Thread(r).messages, IsHuman)
                    = <<HumanMessage(req[r].text)>>
            /\ Answered(r) => req[r].resp[1].session_id = req[r].sid

\* C7, the second half alone: whatever identifier the call runs under, an
\* unknown session starts with the call's text as its only human message.
C7_UnknownSessionStartsFresh ==
    \A r \in Reqs :
        req[r].branch = "new" =>
            SelectSeq(Thread(r).messages, IsHuman) = <<HumanMessage(req[r].text)>>

\* C8: the graph is resumed with the text as the reply only for a session
\* that is suspended at ask_user_for_info when the call begins.
C8_ResumeOnlyWhenSuspended ==
    \A r \in Reqs :
        req[r].branch = "resume" => req[r].startNext = "ask_user_for_info"

\* C9: an answered call has requires_input true exactly when the thread is
\* suspended at ask_user_for_info, and then the response is the pending
\* question; otherwise the response is made from the stored prediction
\* result: the success line with R, G, B and the hex code, or the failure
\* line with the error.
C9_ResponseMatchesOutcome ==
    \A r \in Reqs :
        Answered(r) =>
            LET resp == req[r].resp[1]
                st == Thread(r)
            IN /\ resp.requires_input <=> st.next = "ask_user_for_info"
               /\ resp.requires_input =>
                    /\ st.interruption_message # ""
                    /\ resp.response = <<st.interruption_message>>
               /\ ~resp.requires_input =>
                    /\ st.next = "END"
                    /\ ~IsNone(st.prediction_result)
                    /\ LET pred == st.prediction_result[1] IN
                       IF pred.success
                       THEN LET rgb == pred.predicted_rgb[1] IN
                            /\ Len(resp.response) = 14
                            /\ resp.response[1] = "Prediction complete! RGB: R="
                            /\ resp.response[2] = ToString(rgb.R)
                            /\ resp.response[4] = ToString(rgb.G)
                            /\ resp.response[6] = ToString(rgb.B)
                            /\ SubSeq(resp.response, 8, 14) = pred.hex_color[1]
                       ELSE resp.response = <<"Prediction failed: ", pred.error[1]>>

C9_Witness ==
    \E r \in Reqs :
        /\ Answered(r)
        /\ ~req[r].resp[1].requires_input
        /\ req[r].resp[1].prediction_result[1].success
        /\ req[r].startNext = "ask_user_for_info"

\* C10: two calls with the same session identifier are never inside the
\* graph (between invoke's start and process_graph_step's return) at once.
InsideController(r) == req[r].pc \in {"graph", "invoked"}

C10_OneTurnPerSession ==
    \A r1, r2 \in Reqs :
        (r1 # r2 /\ InsideController(r1) /\ InsideController(r2)) =>
            req[r1].sid # req[r2].sid

C10_Witness ==
    \E r \in Reqs :
        /\ InsideController(r)
        /\ req[r].sid \in sessions
        /\ calls >= 2

\* ------------------------------------------------- claims on the predictor
DoneCall(c, kind) == Caller(c).kind = kind /\ Caller(c).pc = "done"
\* The call met one of the failures: the keyword arguments could not be
\* built, the artifact is missing, joblib.load raised, or predict raised.
MetFailure(cr) ==
    \/ cr.kind = "requirements" /\ ShapingError(cr.requirements[1]) # ""
    \/ \E i \in DOMAIN cr.log : cr.log[i] \in {"FileNotFoundError", "RuntimeError"}
    \/ cr.out = Some(PredictRaises)

Succeeded(c) ==
    /\ Caller(c).pc = "done"
    /\ ~IsNone(Caller(c).result)
    /\ Caller(c).result[1].success
LowerHex == {"0", "1", "2", "3", "4", "5", "6", "7", "8", "9",
             "a", "b", "c", "d", "e", "f"}
\* The number a lowercase hex digit stands for.
HexVal(ch) ==
    CASE ch = "0" -> 0 [] ch = "1" -> 1 [] ch = "2" -> 2 [] ch = "3" -> 3
      [] ch = "4" -> 4 [] ch = "5" -> 5 [] ch = "6" -> 6 [] ch = "7" -> 7
      [] ch = "8" -> 8 [] ch = "9" -> 9 [] ch = "a" -> 10 [] ch = "b" -> 11
      [] ch = "c" -> 12 [] ch = "d" -> 13 [] ch = "e" -> 14 [] ch = "f" -> 15

\* C12: in every successful prediction R, G and B are integers within
\* 0..255 whatever the model put out, and hex is "#" followed by exactly six
\* lowercase hex digits, two for each of R, G, B in that order.
C12_RgbInRangeAndHexMatches ==
    \A c \in Callers :
        Succeeded(c) =>
            LET res == Caller(c).result[1]
                rgb == res.predicted_rgb[1]
                hex == res.hex_color[1]
            IN /\ rgb.R \in 0..255 /\ rgb.G \in 0..255 /\ rgb.B \in 0..255
               /\ Len(hex) = 7
               /\ hex[1] = "#"
               /\ \A i \in 2..7 : hex[i] \in LowerHex
               /\ 16 * HexVal(hex[2]) + HexVal(hex[3]) = rgb.R
               /\ 16 * HexVal(hex[4]) + HexVal(hex[5]) = rgb.G
               /\ 16 * HexVal(hex[6]) + HexVal(hex[7]) = rgb.B

C12_Witness ==
    \E c \in Callers :
        /\ Succeeded(c)
        /\ Caller(c).out = Some(<<-15, 2547, 3000>>)
        /\ Caller(c).result[1].predicted_rgb[1] = [R |-> 0, G |-> 254, B |-> 255]
        /\ Caller(c).result[1].hex_color[1] = <<"#", "0", "0", "f", "e", "f", "f">>

\* The nearest integer of a number given in tenths (no input ends in .5).
RoundOf(x) == IF x >= 0 THEN (x + 5) \div 10 ELSE -((5 - x) \div 10)

\* C13: each channel of a successful prediction is the model's output
\* rounded to the nearest integer and then clamped to 0..255, so that an
\* output of 254.7 is reported as 255.
C13_RoundedThenClamped ==
    \A c \in Callers :
        Succeeded(c) =>
            LET rgb == Caller(c).result[1].predicted_rgb[1]
                out == Caller(c).out[1]
            IN /\ rgb.R = Clamp(RoundOf(out[1]))
               /\ rgb.G = Clamp(RoundOf(out[2]))
               /\ rgb.B = Clamp(RoundOf(out[3]))

\* C14: the model artifact is loaded at most once per process, whatever the
\* sequence or interleaving of prediction calls, concurrent first uses
\* included: joblib.load returns a model at most once.
C14_LoadedAtMostOnce == loads <= 1

\* -------------------------------------------- claims on the requirements
\* C15: whatever RequirementSet the extraction returns, each of the twelve
\* values the predictor is called with lies within its range.
C15_PredictorInputInRange ==
    \A r \in Reqs :
        Has(r, "predict") =>
            InRange(RequirementsToParams(Thread(r).requirements[1]))

\* The twelve scalars of a requirements dict.
Scalars(d) ==
    <<d.rgb_details.dye_red_owf, d.rgb_details.dye_green_owf,
      d.rgb_details.dye_blue_owf, d.chemical_details.salt_gL,
      d.chemical_details.sodaAsh_gL, d.temperature_details.temp_C,
      d.temperature_details.soap_temp_C, d.time_details.time_min,
      d.time_details.soap_time_min, d.liquor_ratio.liquor_ratio,
      d.pH.pH, d.water_hardness_ppm.water_hardness_ppm>>
TwelveValues(d) == \A i \in 1..12 : ~IsNone(Scalars(d)[i])

\* C16: a RequirementSet whose question is empty has a value for each of
\* its twelve scalars, so the RequirementSet stored as complete, and handed
\* to the predictor, carries twelve values that are not null.
C16_CompleteMeansTwelveValues ==
    /\ \A r \in Reqs :
          (~IsNone(req[r].agentOut)
              /\ req[r].agentOut[1].missing_info.question = "") =>
                 TwelveValues(req[r].agentOut[1])
    /\ \A t \in ThreadIds :
          ~IsNone(thr[t].requirements) => TwelveValues(thr[t].requirements[1])

C16_Witness ==
    \E r \in Reqs :
        /\ Has(r, "extract_complete")
        /\ Has(r, "predict")
        /\ ~IsNone(Thread(r).requirements)
        /\ TwelveValues(Thread(r).requirements[1])

\* C17: a turn that ends with the thread at END answers with requires_input
\* false and with requirements holding exactly the twelve values the
\* extraction of that same turn returned; a turn that ends suspended answers
\* with no requirements and no prediction_result.
C17_DoneReturnsExtractedRequirements ==
    \A r \in Reqs :
        Answered(r) =>
            LET resp == req[r].resp[1] IN
               /\ Thread(r).next = "END" =>
                     /\ ~resp.requires_input
                     /\ ~IsNone(resp.requirements)
                     /\ ~IsNone(req[r].agentOut)
                     /\ Scalars(resp.requirements[1]) = Scalars(req[r].agentOut[1])
               /\ Thread(r).next = "ask_user_for_info" =>
                     /\ resp.requires_input
                     /\ IsNone(resp.requirements)
                     /\ IsNone(resp.prediction_result)

\* The same statement for the turns that did not resume a thread that was
\* not suspended (the turns C8 is about); these satisfy it.
C17_ApartFromResumeOfUnsuspended ==
    \A r \in Reqs :
        (Answered(r) /\ ~(req[r].branch = "resume"
                            /\ req[r].startNext # "ask_user_for_info")) =>
            LET resp == req[r].resp[1] IN
               /\ Thread(r).next = "END" =>
                     /\ ~resp.requires_input
                     /\ ~IsNone(resp.requirements)
                     /\ ~IsNone(req[r].agentOut)
                     /\ Scalars(resp.requirements[1]) = Scalars(req[r].agentOut[1])
               /\ Thread(r).next = "ask_user_for_info" =>
                     /\ resp.requires_input
                     /\ IsNone(resp.requirements)
                     /\ IsNone(resp.prediction_result)

\* C18 as stated: once a prediction attempt has resolved, the session state
\* no longer holds the RequirementSet.
C18_RequirementsDiscardedAfterPrediction ==
    \A t \in ThreadIds : thr[t].next = "END" => IsNone(thr[t].requirements)

\* C18, amended: the RequirementSet stays in the session state after the
\* prediction attempt has resolved, as the extraction returned it, and the
\* answer of a turn that finds the thread at END carries it.
C18_RequirementsKeptAfterPrediction ==
    /\ \A t \in ThreadIds :
          thr[t].next = "END" =>
              ~IsNone(thr[t].requirements) /\ ~IsNone(thr[t].prediction_result)
    /\ \A r \in Reqs :
          /\ Has(r, "predict") => Thread(r).requirements = req[r].agentOut
          /\ (Answered(r) /\ Thread(r).next = "END") =>
                req[r].resp[1].requirements = Thread(r).requirements

C18_Witness ==
    \E r \in Reqs :
        /\ Has(r, "predict")
        /\ Answered(r)
        /\ Thread(r).next = "END"
        /\ ~IsNone(Thread(r).requirements)
        /\ ~Thread(r).prediction_result[1].success

\* ------------------------------------------------------ claims on the tool
\* C19: colour_predictor invoked with the twelve values keyed by the model's
\* feature names is accepted, and what it returns carries R, G, B, hex and
\* success at its top level.
C19_FeatureNameKeysAccepted ==
    \A c \in Callers :
        (DoneCall(c, "tool") /\ Caller(c).args = Some(ArgsByFeature)) =>
            /\ Caller(c).raised = ""
            /\ ~IsNone(Caller(c).result)
            /\ {"R", "G", "B", "hex", "success"} \subseteq DOMAIN Caller(c).result[1]

\* C20: colour_predictor invoked with a required field missing is rejected
\* with a validation error before any prediction is attempted: the caller
\* gets no result, and the call neither tests or loads the model nor calls
\* predict.
C20_MissingFieldRejectedBeforePrediction ==
    \A c \in Callers :
        (/\ Caller(c).kind = "tool"
         /\ \E f \in SchemaFields : f \notin DOMAIN Caller(c).args[1]) =>
            /\ Caller(c).pc = "done"
            /\ Caller(c).raised = "ValidationError"
            /\ IsNone(Caller(c).result)
            /\ Caller(c).log = <<>>

C20_Witness ==
    \E c \in Callers :
        /\ DoneCall(c, "tool")
        /\ Caller(c).args = Some(Without(ArgsByField, "water_hardness"))
        /\ Caller(c).raised = "ValidationError"
        /\ IsNone(Caller(c).result)
        /\ ~loaded

\* ------------------------------------------------------ claims on the turn
\* How many events of the turn's log are among es.
Count(r, es) == Cardinality({i \in DOMAIN Events(r) : Events(r)[i] \in es})
Extractions(r) == Count(r, {"extract_question", "extract_complete", "extract_raises"})
Predictions(r) == Count(r, {"predict", "no_requirements"})

\* C21: a call that does not fail ends suspended at ask_user_for_info or at
\* END; within it the extraction ran exactly once, and the predictor exactly
\* once when the call ends at END and never when it ends suspended.
C21_OneExtractionPerTurn ==
    \A r \in Reqs :
        Answered(r) =>
            /\ Thread(r).next \in {"ask_user_for_info", "END"}
            /\ Extractions(r) = 1
            /\ Predictions(r) = IF Thread(r).next = "END" THEN 1 ELSE 0

\* The same statement for the turns that did not resume a thread that was
\* not suspended (the turns C8 is about).
C21_ApartFromResumeOfUnsuspended ==
    \A r \in Reqs :
        (Answered(r) /\ ~(req[r].branch = "resume"
                            /\ req[r].startNext # "ask_user_for_info")) =>
            /\ Thread(r).next \in {"ask_user_for_info", "END"}
            /\ Extractions(r) = 1
            /\ Predictions(r) = IF Thread(r).next = "END" THEN 1 ELSE 0

\* C22: when the extraction raises during a turn, the call ends with a 500:
\* the extraction ran once and was the last thing the turn did, the
\* predictor did not run, and the answer carries neither a question nor a
\* prediction.
C22_ExtractionFailureEndsInServerError ==
    \A r \in Reqs :
        Has(r, "extract_raises") =>
            /\ req[r].pc = "returned"
            /\ Last(Events(r)) = "extract_raises"
            /\ Extractions(r) = 1
            /\ Predictions(r) = 0
            /\ LET resp == req[r].resp[1] IN
                  /\ resp.status = 500
                  /\ ~resp.requires_input
                  /\ IsNone(resp.prediction_result)
                  /\ IsNone(resp.requirements)
                  /\ resp.response = <<"Error: ">>

C22_Witness ==
    \E r \in Reqs :
        /\ Has(r, "extract_raises")
        /\ Has(r, "resume")
        /\ req[r].resp[1].status = 500

\* C23: a turn that fails with an internal error leaves the session as it
\* was when the turn began: known or unknown in the session map, with the
\* same transcript, the same pending question and the same node to run.
C23_FailedTurnLeavesSessionUnchanged ==
    \A r \in Reqs :
        (req[r].pc = "returned" /\ req[r].resp[1].status = 500) =>
            /\ (req[r].sid \in sessions) <=> (req[r].branch = "resume")
            /\ Thread(r).messages = req[r].startMsgs
            /\ Thread(r).interruption_message = req[r].startQuestion
            /\ Thread(r).next = req[r].startNext

\* The part of C23 about a suspended session: after a failed turn it is
\* still suspended at its question, so that the next reply is taken in.
C23_FailedResumeLeavesSessionSuspended ==
    \A r \in Reqs :
        (/\ req[r].pc = "returned"
         /\ req[r].resp[1].status = 500
         /\ req[r].startNext = "ask_user_for_info") =>
            /\ Thread(r).next = "ask_user_for_info"
            /\ Thread(r).messages = req[r].startMsgs

\* The reply of every answered resume turn is in the transcript.
C23_ReplyNotLost ==
    \A r \in Reqs :
        (Answered(r) /\ req[r].branch = "resume" /\ req[r].startNext # "END") =>
            \E i \in DOMAIN Thread(r).messages :
                Thread(r).messages[i] = HumanMessage(req[r].text)

\* -------------------------------------------------- claims on the session
\* The edges of the graph, as moves of a thread's node to run, and what the
\* move from ask_user_for_info does to the transcript: it appends one human
\* message, the reply of the call that made the move.
GraphMove(t) ==
    \/ thr[t].next = "" /\ thr'[t].next = "requirements_agent"
    \/ thr[t].next = "requirements_agent"
          /\ thr'[t].next \in {"ask_user_for_info", "make_prediction"}
    \/ /\ thr[t].next = "ask_user_for_info"
       /\ thr'[t].next = "requirements_agent"
       /\ \E r \in Reqs :
             /\ req[r].sid = t
             /\ ~Has(r, "resume")
             /\ thr'[t].messages = Append(thr[t].messages, HumanMessage(req[r].text))
    \/ thr[t].next = "make_prediction" /\ thr'[t].next = "END"

C24_OnlyCycle ==
    [][\A t \in ThreadIds : thr'[t].next # thr[t].next => GraphMove(t)]_vars

C24_EventuallyDone ==
    \A t \in ThreadIds :
        (thr[t].next # "") ~>
            (thr[t].next = "END" /\ ~IsNone(thr[t].prediction_result))

\* C24: when the user replies to every question and the extraction comes to
\* return an empty question, every session that was begun reaches END with
\* a prediction_result stored; the node to run moves along the graph's edges
\* only, whose one cycle is requirements_agent -> ask_user_for_info ->
\* requirements_agent, and each pass through it appends exactly one reply.
C24_SessionReachesDone == C24_OnlyCycle /\ C24_EventuallyDone

C24_Witness ==
    \E t \in ThreadIds :
        /\ thr[t].next = "END"
        /\ ~IsNone(thr[t].prediction_result)
        /\ Len(SelectSeq(thr[t].messages, IsHuman)) = MaxCalls

\* C25: a step taken for one session changes the thread of that session
\* only: the transcript, pending question, requirements, prediction result
\* and node to run of every other thread stay as they are, however the
\* turns of distinct sessions follow one another.
C25_SessionsIsolated ==
    [][\A t \in ThreadIds :
          thr'[t] # thr[t] =>
              \E r \in Reqs : req'[r] # req[r] /\ req'[r].sid = t]_vars

\* A turn of one session has run while another session is suspended.
C25_Witness ==
    \E r \in Reqs, t \in ThreadIds :
        /\ Answered(r)
        /\ req[r].sid # t
        /\ Thread(r).next = "END"
        /\ thr[t].next = "ask_user_for_info"

\* C26: in every state of a thread, requirements is set only while
\* requirements_complete is true and interruption_message is empty,
\* interruption_message is not empty only while requirements_complete is
\* false, and prediction_result is set only when make_prediction was the
\* last node to run (the thread is at END).
C26_StateFieldsConsistent ==
    \A t \in ThreadIds :
        /\ ~IsNone(thr[t].requirements) =>
              thr[t].requirements_complete /\ thr[t].interruption_message = ""
        /\ thr[t].interruption_message # "" => ~thr[t].requirements_complete
        /\ ~IsNone(thr[t].prediction_result) => thr[t].next = "END"

\* A thread that was suspended, resumed and then completed.
C26_Witness ==
    \E t \in ThreadIds :
        /\ ~IsNone(thr[t].requirements)
        /\ thr[t].next = "make_prediction"
        /\ Len(thr[t].messages) >= 3
        /\ \E u \in ThreadIds :
              thr[u].interruption_message # "" /\ ~thr[u].requirements_complete

\* ------------------------------------------- claims on the feature vector
\* The twelve features of the row handed to model.predict, in the order of
\* Scalars.
FeatureScalars(x) ==
    <<x.dye_red_owf, x.dye_green_owf, x.dye_blue_owf, x.salt_gL, x.sodaAsh_gL,
      x.temp_C, x.soap_temp_C, x.time_min, x.soap_time_min, x.liquor_ratio,
      x.pH, x.water_hardness_ppm>>
\* A call of predict_from_requirements with a complete dict has come to
\* model.predict.
GaveFeatures(c) ==
    /\ Caller(c).kind = "requirements"
    /\ ~IsNone(Caller(c).features)
    /\ TwelveValues(Caller(c).requirements[1])

\* C27: for every complete RequirementSet, predict_from_requirements hands
\* each of the twelve values, unchanged, to the model feature of the same
\* name: none is swapped with another and none is altered.
C27_ValuesReachFeaturesUnchanged ==
    \A c \in Callers :
        GaveFeatures(c) =>
            FeatureScalars(Caller(c).features[1]) = Scalars(Caller(c).requirements[1])

\* The same for the eleven values other than liquor_ratio; these do arrive
\* unchanged.
C27_ElevenUnchanged ==
    \A c \in Callers :
        GaveFeatures(c) =>
            \A i \in (1..12) \ {10} :
                FeatureScalars(Caller(c).features[1])[i]
                    = Scalars(Caller(c).requirements[1])[i]
====
